---- MODULE Spec2Model ----
(***************************************************************************)
(* Model of src/src/gradescope_request.py: the Gradescope client facade    *)
(* (construction, login, course and assignment retrieval), the HTTP        *)
(* exchange it performs and the markup traversal of the two pages it       *)
(* reads.                                                                   *)
(*                                                                         *)
(* Text that the code inspects character by character (URLs, hrefs,        *)
(* attribute values holding digits) is a sequence of one-character         *)
(* strings, so that `in`, split('/') and int() are computed, not assumed.  *)
(* Python's None is the value None below (a sequence that is no text);     *)
(* True and False stored in attributes or returned are the strings "True"  *)
(* and "False".                                                            *)
(***************************************************************************)
EXTENDS Integers, Sequences, FiniteSets

VARIABLES
    client,     \* "none": no Gradescope object; "live": __init__ returned one
    username,   \* self.username
    password,   \* self.password
    logged_in,  \* self.logged_in: "unset" (attribute never assigned), "True", "False"
    site,       \* the documents the server serves: site.root, site.course
    sent,       \* the HTTP requests issued by the most recent call, in order
    received,   \* the responses to them, in order
    parsed,     \* indices of the received responses given to BeautifulSoup
    last        \* the most recent call: operation, arguments, outcome

vars == <<client, username, password, logged_in, site, sent, received, parsed, last>>

None == <<"<None>">>

----------------------------------------------------------------------------
(* Bounds of the explored inputs.                                          *)

\* longest list of children of div.courseList
MaxNodes == 3
\* most courseBox elements in one courseList--coursesForTerm container
MaxBoxes == 1
\* most <tr> rows in the assignments table body
MaxRows == 2

----------------------------------------------------------------------------
(* Character strings.                                                      *)

IsDigit(c) == c \in {"0", "1", "2", "3", "4", "5", "6", "7", "8", "9"}

DigitValue(c) ==
    CASE c = "0" -> 0 [] c = "1" -> 1 [] c = "2" -> 2 [] c = "3" -> 3
      [] c = "4" -> 4 [] c = "5" -> 5 [] c = "6" -> 6 [] c = "7" -> 7
      [] c = "8" -> 8 [] c = "9" -> 9

\* Python's `sub in s` for strings
Contains(sub, s) ==
    \E i \in 0..(Len(s) - Len(sub)) : SubSeq(s, i + 1, i + Len(sub)) = sub

\* s.split('/')[-1]: what follows the last '/', the whole of s when it has none
LastSegment(s) ==
    LET slashes == {i \in 1..Len(s) : s[i] = "/"}
        from == IF slashes = {} THEN 1
                ELSE (CHOOSE i \in slashes : \A j \in slashes : j <= i) + 1
    IN  SubSeq(s, from, Len(s))

\* ''.join(re.findall(r'\d', text))
Digits(text) == SelectSeq(text, IsDigit)

\* int(s) on a string of decimal digits (the caller has excluded everything else)
RECURSIVE DecimalValue(_)
DecimalValue(s) ==
    IF s = <<>> THEN 0
    ELSE 10 * DecimalValue(SubSeq(s, 1, Len(s) - 1)) + DigitValue(s[Len(s)])

\* whether int(s) succeeds, for text made of digits and letters only: a
\* non-empty run of digits
IsIntLiteral(s) == s # <<>> /\ \A i \in 1..Len(s) : IsDigit(s[i])

ACCOUNT == <<"a", "c", "c", "o", "u", "n", "t">>
LOGIN == <<"l", "o", "g", "i", "n">>

BASE_URL ==
    <<"h", "t", "t", "p", "s", ":", "/", "/", "w", "w", "w", ".",
      "g", "r", "a", "d", "e", "s", "c", "o", "p", "e", ".", "c", "o", "m">>
LOGIN_URL == BASE_URL \o <<"/">> \o LOGIN

\* urljoin(base, url) for a base without a path and a reference that is an
\* absolute path; an empty reference gives the base
urljoin(base, url) == IF url = <<>> THEN base ELSE base \o url

\* where the server may redirect a POST of the login form
ACCOUNT_URL == BASE_URL \o <<"/">> \o ACCOUNT
ACCOUNT_LOGIN_URL == BASE_URL \o <<"/">> \o ACCOUNT \o <<"/">> \o LOGIN
RedirectTargets == {BASE_URL, LOGIN_URL, ACCOUNT_URL, ACCOUNT_LOGIN_URL}

\* response.url, where the redirect chain ended: a GET is answered in place or
\* sent to the login page, a POST to any of the targets above
FinalURLs(method, requested) ==
    IF method = "GET" THEN {requested, LOGIN_URL} ELSE {requested} \cup RedirectTargets

Statuses == {200, 404, 500}

Request(method, url, data) == [method |-> method, url |-> url, data |-> data]
Response(status_code, url) == [status_code |-> status_code, url |-> url]
Responses(method, requested) ==
    {Response(s, u) : s \in Statuses, u \in FinalURLs(method, requested)}

----------------------------------------------------------------------------
(* Errors and call outcomes.                                               *)

Message(text, args) == [text |-> text, args |-> args]
NoMessage == Message("", <<>>)

Raise(error, msg) == [outcome |-> "raise", error |-> error, msg |-> msg, value |-> None]
Return(value) == [outcome |-> "return", error |-> "", msg |-> NoMessage, value |-> value]

\* f'Failed to fetch the webpage. Status code: {response.status_code}. URL: {response.url}'
FetchFailed(response) ==
    Message("Failed to fetch the webpage. Status code: {}. URL: {}",
            <<response.status_code, response.url>>)

\* a plausible slip: accepting every status below 500
response_check_below_500(response) ==
    IF response.status_code < 500 THEN Return("True")
    ELSE Raise("ResponseError", FetchFailed(response))

response_check(response) ==
    IF response.status_code = 200 THEN Return("True")
    ELSE Raise("ResponseError", FetchFailed(response))

----------------------------------------------------------------------------
(* login(): lines 115-146.                                                 *)

\* what a call did: its outcome, self.logged_in afterwards, and its traffic
Effect(result, flag, reqs, resps, soups) ==
    [result |-> result, flag |-> flag, sent |-> reqs, received |-> resps,
     parsed |-> soups]

\* the form posted to LOGIN_URL; requests leaves out a field whose value is None
LoginData(token, u, p) ==
    [authenticity_token |-> token, email |-> u, password |-> p]

\* a plausible slip: testing 'login' before 'account'
ClassifyLoginFirst(url) ==
    IF Contains(LOGIN, url) THEN [flag |-> "False", result |-> Return("False")]
    ELSE IF Contains(ACCOUNT, url) THEN [flag |-> "True", result |-> Return("True")]
    ELSE [flag |-> "False",
          result |-> Raise("LoginError", Message("Unknown return URL.", <<>>))]

\* a plausible slip: escalating a rejected login to the default LoginError
ClassifyRejectRaises(url) ==
    IF Contains(ACCOUNT, url) THEN [flag |-> "True", result |-> Return("True")]
    ELSE IF Contains(LOGIN, url)
        THEN [flag |-> "False",
              result |-> Raise("LoginError",
                  Message("Login failed, please check username and password.", <<>>))]
    ELSE [flag |-> "False",
          result |-> Raise("LoginError", Message("Unknown return URL.", <<>>))]

\* a plausible slip: treating an unknown redirect as a rejected login
ClassifyUnknownIsFalse(url) ==
    IF Contains(ACCOUNT, url) THEN [flag |-> "True", result |-> Return("True")]
    ELSE [flag |-> "False", result |-> Return("False")]

\* lines 138-146: the outcome is read off the POST response's final URL
Classify(url) ==
    IF Contains(ACCOUNT, url) THEN [flag |-> "True", result |-> Return("True")]
    ELSE IF Contains(LOGIN, url) THEN [flag |-> "False", result |-> Return("False")]
    ELSE [flag |-> "False",
          result |-> Raise("LoginError", Message("Unknown return URL.", <<>>))]

\* a plausible slip: rejecting empty credentials as well (`not self.username`)
CredentialsMissingOrEmpty(u, p) == u \in {None, <<>>} \/ p \in {None, <<>>}

\* line 116
CredentialsMissing(u, p) == u = None \/ p = None

\* a plausible slip: clearing the flag on entry, before the outcome is known
FlagOnEntryCleared(flag) == "False"

\* login() does not touch self.logged_in before line 139/142/145
FlagOnEntry(flag) == flag

\* login() on a client whose flag is `flag`, against the root document `doc`;
\* r1 answers the GET of line 119, r2 the POST of line 135
login(u, p, flag, doc, r1, r2) ==
    LET get == Request("GET", BASE_URL, None)
        \* line 125: token_input.get('value'), None when the field has no value
        post == Request("POST", LOGIN_URL, LoginData(doc.token_value, u, p))
        kept == FlagOnEntry(flag)
    IN  IF CredentialsMissing(u, p)
        THEN Effect(Raise("TypeError",
                          Message("The username or password cannot be None.", <<>>)),
                    kept, <<>>, <<>>, {})
        ELSE IF response_check(r1).outcome = "raise"
        THEN Effect(response_check(r1), kept, <<get>>, <<r1>>, {})
        ELSE IF ~doc.token_input
        \* line 124 skips the assignment, line 128 reads the unbound local
        THEN Effect(Raise("UnboundLocalError",
                          Message("authenticity_token referenced before assignment", <<>>)),
                    kept, <<get>>, <<r1>>, {1})
        ELSE IF response_check(r2).outcome = "raise"
        THEN Effect(response_check(r2), kept, <<get, post>>, <<r1, r2>>, {1})
        ELSE Effect(Classify(r2.url).result, Classify(r2.url).flag,
                    <<get, post>>, <<r1, r2>>, {1})

----------------------------------------------------------------------------
(* The root document as get_courses() reads it: lines 156-183.             *)
(*                                                                         *)
(* doc.heading: an <h1> with the text "Your Courses" exists.               *)
(* doc.courseList: the heading has a following sibling div.courseList.     *)
(* doc.nodes: the children of that div, in document order; a node is a     *)
(* term label (class courseList--term, with its text) or a container       *)
(* (class courseList--coursesForTerm, with its courseBox elements).        *)

TermNode(text) == [cls |-> "courseList--term", text |-> text, boxes |-> <<>>]
ContainerNode(boxes) ==
    [cls |-> "courseList--coursesForTerm", text |-> <<>>, boxes |-> boxes]

\* an element of class courseBox: its tag name, its href attribute and the
\* text of its courseBox--shortname and courseBox--name children (None: absent)
CourseBox(name, href, shortname, fullname) ==
    [name |-> name, href |-> href, shortname |-> shortname, fullname |-> fullname]

\* text.strip() / get_text(strip=True) of a single text node
RECURSIVE Strip(_)
Strip(text) ==
    IF text = <<>> THEN text
    ELSE IF Head(text) = " " THEN Strip(Tail(text))
    ELSE IF text[Len(text)] = " " THEN Strip(SubSeq(text, 1, Len(text) - 1))
    ELSE text

\* _parse_int(text), lines 258-268: int() of the digits of text, ValueError
\* when it has none
parse_int(text) ==
    IF Digits(text) = <<>>
    THEN Raise("ValueError", Message("invalid literal for int() with base 10: ''", <<>>))
    ELSE Return(DecimalValue(Digits(text)))

Course(course_id, url, term, short_name, full_name) ==
    [course_id |-> course_id, url |-> url, term |-> term,
     short_name |-> short_name, full_name |-> full_name]

\* lines 169-178: the Course built from one anchor of class courseBox; the
\* keyword arguments are evaluated in order, the first failure propagates
CourseOf(box, term_name) ==
    LET id == parse_int(LastSegment(IF box.href = None THEN <<>> ELSE box.href))
    IN  IF id.outcome = "raise" THEN id
        ELSE IF box.shortname = None \/ box.fullname = None
        THEN Raise("AttributeError",
                   Message("'NoneType' object has no attribute 'get_text'", <<>>))
        ELSE Return(Course(id.value, box.href, term_name,
                           Strip(box.shortname), Strip(box.fullname)))

\* a plausible slip: leaving out an anchor whose Course cannot be built
RECURSIVE CoursesOfContainerLenient(_, _, _)
CoursesOfContainerLenient(boxes, term_name, courses) ==
    IF boxes = <<>> THEN Return(courses)
    ELSE IF Head(boxes).name # "a" \/ CourseOf(Head(boxes), term_name).outcome = "raise"
    THEN CoursesOfContainerLenient(Tail(boxes), term_name, courses)
    ELSE CoursesOfContainerLenient(Tail(boxes), term_name,
             Append(courses, CourseOf(Head(boxes), term_name).value))

\* lines 166-179: the loop over the courseBox elements of one container;
\* an element that is no anchor is passed over (line 167)
RECURSIVE CoursesOfContainer(_, _, _)
CoursesOfContainer(boxes, term_name, courses) ==
    IF boxes = <<>> THEN Return(courses)
    ELSE IF Head(boxes).name # "a"
    THEN CoursesOfContainer(Tail(boxes), term_name, courses)
    ELSE LET c == CourseOf(Head(boxes), term_name)
         IN  IF c.outcome = "raise" THEN c
             ELSE CoursesOfContainer(Tail(boxes), term_name, Append(courses, c.value))

\* term.find_next_sibling(class_='courseList--coursesForTerm'), lines 163-164:
\* the index of the first container after node i, 0 when there is none
NextContainer(nodes, i) ==
    LET later == {j \in (i + 1)..Len(nodes) : nodes[j].cls = "courseList--coursesForTerm"}
    IN  IF later = {} THEN 0 ELSE CHOOSE j \in later : \A k \in later : j <= k

\* lines 161-179: the loop over the term labels, from node i on; a label with
\* no container after it contributes nothing (line 165)
RECURSIVE CoursesOfTerms(_, _, _)
CoursesOfTerms(nodes, i, courses) ==
    IF i > Len(nodes) THEN Return(courses)
    ELSE IF nodes[i].cls # "courseList--term" THEN CoursesOfTerms(nodes, i + 1, courses)
    ELSE LET j == NextContainer(nodes, i)
         IN  IF j = 0 THEN CoursesOfTerms(nodes, i + 1, courses)
             ELSE LET r == CoursesOfContainer(nodes[j].boxes, Strip(nodes[i].text), courses)
                  IN  IF r.outcome = "raise" THEN r
                      ELSE CoursesOfTerms(nodes, i + 1, r.value)

\* lines 156-183 on the parsed root document
ParseCourses(doc) ==
    IF ~doc.heading
    THEN Raise("ResponseError", Message("Cannot find heading \"Your Courses\"", <<>>))
    ELSE IF ~doc.courseList
    THEN Raise("AttributeError",
               Message("'NoneType' object has no attribute 'find_all'", <<>>))
    ELSE CoursesOfTerms(doc.nodes, 1, <<>>)

\* a plausible slip: a guard that lets every caller through
NotLoggedInNever(flag) == FALSE

\* `if not self.logged_in`, lines 149 and 206
NotLoggedIn(flag) == flag # "True"

\* get_courses(), lines 148-183, on a client whose flag is `flag`; r answers
\* the GET of line 152
get_courses(flag, doc, r) ==
    LET get == Request("GET", BASE_URL, None)
    IN  IF flag = "unset"
        THEN Effect(Raise("AttributeError",
                          Message("'Gradescope' object has no attribute 'logged_in'", <<>>)),
                    flag, <<>>, <<>>, {})
        ELSE IF NotLoggedIn(flag)
        THEN Effect(Raise("NotLoggedInError", Message("Not logged in.", <<>>)),
                    flag, <<>>, <<>>, {})
        ELSE IF response_check(r).outcome = "raise"
        THEN Effect(response_check(r), flag, <<get>>, <<r>>, {})
        ELSE Effect(ParseCourses(doc), flag, <<get>>, <<r>>, {1})

\* the label get_term_courses() derives from the clock, lines 188-200
Season(month) ==
    IF 2 <= month /\ month <= 6 THEN <<"S", "p", "r", "i", "n", "g">>
    ELSE IF 9 <= month /\ month <= 12 THEN <<"F", "a", "l", "l">>
    ELSE <<"S", "u", "m", "m", "e", "r">>

\* str() of the years the clock may show
YearText(year) ==
    CASE year = 2024 -> <<"2", "0", "2", "4">>
      [] year = 2025 -> <<"2", "0", "2", "5">>

\* f"{season} {current_year}"
TermLabel(month, year) == Season(month) \o <<" ">> \o YearText(year)

\* get_term_courses(), lines 185-203: get_courses(), then the courses whose
\* term is the label of the current month and year
get_term_courses(flag, doc, r, month, year) ==
    LET e == get_courses(flag, doc, r)
        InTerm(course) == course.term = TermLabel(month, year)
    IN  IF e.result.outcome = "raise" THEN e
        ELSE Effect(Return(SelectSeq(e.result.value, InTerm)),
                    e.flag, e.sent, e.received, e.parsed)

----------------------------------------------------------------------------
(* The course document as get_assignments() reads it: lines 205-228.       *)
(*                                                                         *)
(* doc.table: a <table id="assignments-student-table"> exists; doc.tbody:  *)
(* it has a <tbody>; doc.rows: the <tr> elements of that body in document  *)
(* order. In a row, None stands for an attribute or element that is not    *)
(* there.                                                                  *)

Row(button, id, ready, url, title, late, status_td, status_text, released, due) ==
    [button |-> button, id |-> id, ready |-> ready, url |-> url, title |-> title,
     late |-> late, status_td |-> status_td, status_text |-> status_text,
     released |-> released, due |-> due]

TRUE_TEXT == <<"t", "r", "u", "e">>
FALSE_TEXT == <<"f", "a", "l", "s", "e">>

\* Python's bool as stored in the result
Bool(b) == IF b THEN "True" ELSE "False"

\* lines 217-227: the mapping built from one row; the first failing lookup
\* propagates
AssignmentOf(row) ==
    IF ~row.button
    THEN Raise("TypeError", Message("'NoneType' object is not subscriptable", <<>>))
    ELSE IF row.id = None
    THEN Raise("KeyError", Message("data-assignment-id", <<>>))
    ELSE IF ~IsIntLiteral(row.id)
    THEN Raise("ValueError", Message("invalid literal for int() with base 10", <<>>))
    ELSE IF row.ready = None
    THEN Raise("KeyError", Message("data-ready-for-submission", <<>>))
    ELSE IF row.url = None
    THEN Raise("KeyError", Message("data-post-url", <<>>))
    ELSE IF row.title = None
    THEN Raise("KeyError", Message("data-assignment-title", <<>>))
    ELSE IF row.late = None
    THEN Raise("KeyError", Message("data-show-late-submission-warning", <<>>))
    ELSE IF ~row.status_td
    THEN Raise("AttributeError",
               Message("'NoneType' object has no attribute 'find'", <<>>))
    ELSE IF row.status_text = None
    THEN Raise("AttributeError",
               Message("'NoneType' object has no attribute 'text'", <<>>))
    ELSE IF row.released = None \/ row.due = None
    THEN Raise("TypeError", Message("'NoneType' object is not subscriptable", <<>>))
    ELSE Return([assignment_id |-> DecimalValue(row.id),
                 ready_for_submission |-> Bool(row.ready = TRUE_TEXT),
                 url |-> row.url,
                 title |-> row.title,
                 late_submission_warning |-> Bool(row.late = TRUE_TEXT),
                 submission_status |-> Strip(row.status_text),
                 released_time |-> row.released,
                 due_time |-> row.due])

\* a plausible slip: per-row recovery, a row that fails is left out
RECURSIVE AssignmentsOfRowsLenient(_, _)
AssignmentsOfRowsLenient(rows, assignments) ==
    IF rows = <<>> THEN Return(assignments)
    ELSE IF AssignmentOf(Head(rows)).outcome = "raise"
    THEN AssignmentsOfRowsLenient(Tail(rows), assignments)
    ELSE AssignmentsOfRowsLenient(Tail(rows),
             Append(assignments, AssignmentOf(Head(rows)).value))

\* lines 215-228: the loop over the rows
RECURSIVE AssignmentsOfRows(_, _)
AssignmentsOfRows(rows, assignments) ==
    IF rows = <<>> THEN Return(assignments)
    ELSE LET a == AssignmentOf(Head(rows))
         IN  IF a.outcome = "raise" THEN a
             ELSE AssignmentsOfRows(Tail(rows), Append(assignments, a.value))

\* lines 212-228 on the parsed course document
ParseAssignments(doc) ==
    IF ~doc.table
    THEN Raise("AttributeError",
               Message("'NoneType' object has no attribute 'find'", <<>>))
    ELSE IF ~doc.tbody
    THEN Raise("AttributeError",
               Message("'NoneType' object has no attribute 'find_all'", <<>>))
    ELSE AssignmentsOfRows(doc.rows, <<>>)

\* Course.get_url(), lines 27-29
get_url(course) == urljoin(BASE_URL, course.url)

\* get_assignments(course), lines 205-228; r answers the GET of line 209
get_assignments(flag, course, doc, r) ==
    LET get == Request("GET", get_url(course), None)
    IN  IF flag = "unset"
        THEN Effect(Raise("AttributeError",
                          Message("'Gradescope' object has no attribute 'logged_in'", <<>>)),
                    flag, <<>>, <<>>, {})
        ELSE IF NotLoggedIn(flag)
        THEN Effect(Raise("NotLoggedInError", Message("Not logged in.", <<>>)),
                    flag, <<>>, <<>>, {})
        ELSE IF response_check(r).outcome = "raise"
        THEN Effect(response_check(r), flag, <<get>>, <<r>>, {})
        ELSE Effect(ParseAssignments(doc), flag, <<get>>, <<r>>, {1})

\* get_past_submissions, get_assignment_grades, download_file: lines 230-237
stub(flag) == Effect(Return(None), flag, <<>>, <<>>, {})

----------------------------------------------------------------------------
(* Calls as the caller sees them.                                          *)

\* was: self.logged_in when the call began
Call(op, args, was, result) ==
    [op |-> op, args |-> args, was |-> was, outcome |-> result.outcome,
     error |-> result.error, msg |-> result.msg, value |-> result.value]

\* credentials a caller may pass
Usernames == {None, <<>>, <<"u">>}
Passwords == {None, <<>>, <<"p">>}

\* Gradescope(username, password): lines 102-113. login() raising leaves the
\* caller without an object; login() returning gives one, whatever it returned
Construct(u, p, r1, r2) ==
    LET e == login(u, p, "unset", site.root, r1, r2)
    IN  /\ client = "none"
        /\ IF e.result.outcome = "return"
           THEN /\ client' = "live"
                /\ username' = u
                /\ password' = p
                /\ logged_in' = e.flag
                /\ last' = Call("__init__", <<u, p>>, "unset", Return(None))
           ELSE /\ client' = "none"
                /\ username' = None
                /\ password' = None
                /\ logged_in' = "unset"
                /\ last' = Call("__init__", <<u, p>>, "unset", e.result)
        /\ sent' = e.sent
        /\ received' = e.received
        /\ parsed' = e.parsed
        /\ UNCHANGED site

\* client.login() on a constructed client
Login(r1, r2) ==
    LET e == login(username, password, logged_in, site.root, r1, r2)
    IN  /\ client = "live"
        /\ logged_in' = e.flag
        /\ last' = Call("login", <<>>, logged_in, e.result)
        /\ sent' = e.sent
        /\ received' = e.received
        /\ parsed' = e.parsed
        /\ UNCHANGED <<client, username, password, site>>

\* a call on the constructed client that is not login(): its effect on the state
Apply(op, args, e) ==
    /\ client = "live"
    /\ logged_in' = e.flag
    /\ last' = Call(op, args, logged_in, e.result)
    /\ sent' = e.sent
    /\ received' = e.received
    /\ parsed' = e.parsed
    /\ UNCHANGED <<client, username, password, site>>

GetCourses(r) == Apply("get_courses", <<>>, get_courses(logged_in, site.root, r))

GetTermCourses(r, month, year) ==
    Apply("get_term_courses", <<>>, get_term_courses(logged_in, site.root, r, month, year))

GetAssignments(course, r) ==
    Apply("get_assignments", <<course>>, get_assignments(logged_in, course, site.course, r))

GetPastSubmissions == Apply("get_past_submissions", <<>>, stub(logged_in))

GetAssignmentGrades == Apply("get_assignment_grades", <<>>, stub(logged_in))

DownloadFile == Apply("download_file", <<>>, stub(logged_in))

----------------------------------------------------------------------------
(* Inputs.                                                                 *)

SeqsUpTo(S, n) == UNION {[1..k -> S] : k \in 0..n}

FALL_2024 == <<"F", "a", "l", "l", " ", "2", "0", "2", "4">>
SPRING_2025 == <<"S", "p", "r", "i", "n", "g", " ", "2", "0", "2", "5">>
TermTexts == {FALL_2024, SPRING_2025}

COURSES_42 == <<"/", "c", "o", "u", "r", "s", "e", "s", "/", "4", "2">>
COURSES_7 == <<"/", "c", "o", "u", "r", "s", "e", "s", "/", "7">>
COURSES_NEW == <<"/", "c", "o", "u", "r", "s", "e", "s", "/", "n", "e", "w">>

\* a well-formed course anchor; the "add a course" box, which is no anchor;
\* an anchor without its short-name node; an anchor whose href has no digits
GoodBox == CourseBox("a", COURSES_42, <<"C", "S">>, <<" ", "I", "n", "t", "r", "o">>)
AddBox == CourseBox("button", None, None, None)
NoShortBox == CourseBox("a", COURSES_7, None, <<"A", "l", "g">>)
NoDigitsBox == CourseBox("a", COURSES_NEW, <<"N">>, <<"N", "e", "w">>)
BoxKinds == {GoodBox, AddBox, NoShortBox}

NodeKinds ==
    {TermNode(t) : t \in TermTexts}
        \cup {ContainerNode(b) : b \in SeqsUpTo(BoxKinds, MaxBoxes)}

RootDoc(token_input, token_value, heading, courseList, nodes) ==
    [token_input |-> token_input, token_value |-> token_value, heading |-> heading,
     courseList |-> courseList, nodes |-> nodes]

TOKEN == <<"t", "0", "k">>

\* the dashboard of one term with one course
OneCourseNodes == <<TermNode(FALL_2024), ContainerNode(<<GoodBox>>)>>
DashboardDoc == RootDoc(TRUE, TOKEN, TRUE, TRUE, OneCourseNodes)

\* root documents for the traversal: no heading, no list after the heading,
\* and every list of nodes within the bounds
RootDocs ==
    {RootDoc(TRUE, TOKEN, FALSE, FALSE, <<>>), RootDoc(TRUE, TOKEN, TRUE, FALSE, <<>>)}
        \cup {RootDoc(TRUE, TOKEN, TRUE, TRUE, n) : n \in SeqsUpTo(NodeKinds, MaxNodes)}

ID_7 == <<"7">>
ID_12 == <<"1", "2">>
POST_URL == <<"/", "a", "/", "7">>
TITLE == <<"H", "W">>
STATUS == <<" ", "N", "o", " ">>
RELEASED == <<"2", "4", "-", "0", "1">>
DUE == <<"2", "4", "-", "0", "2">>

\* well-formed rows, and rows lacking the button, the id attribute, digits in
\* the id, the status text node, the due time element
RowKinds ==
    {Row(TRUE, ID_7, TRUE_TEXT, POST_URL, TITLE, FALSE_TEXT, TRUE, STATUS, RELEASED, DUE),
     Row(TRUE, ID_12, FALSE_TEXT, POST_URL, TITLE, TRUE_TEXT, TRUE, STATUS, RELEASED, DUE),
     Row(FALSE, None, None, None, None, None, TRUE, STATUS, RELEASED, DUE),
     Row(TRUE, None, TRUE_TEXT, POST_URL, TITLE, FALSE_TEXT, TRUE, STATUS, RELEASED, DUE),
     Row(TRUE, TITLE, TRUE_TEXT, POST_URL, TITLE, FALSE_TEXT, TRUE, STATUS, RELEASED, DUE),
     Row(TRUE, ID_7, TRUE_TEXT, POST_URL, TITLE, FALSE_TEXT, TRUE, None, RELEASED, DUE),
     Row(TRUE, ID_7, TRUE_TEXT, POST_URL, TITLE, FALSE_TEXT, TRUE, STATUS, RELEASED, None)}

CourseDoc(table, tbody, rows) == [table |-> table, tbody |-> tbody, rows |-> rows]

OneRowDoc == CourseDoc(TRUE, TRUE,
    <<Row(TRUE, ID_7, TRUE_TEXT, POST_URL, TITLE, FALSE_TEXT, TRUE, STATUS, RELEASED, DUE)>>)

CourseDocs ==
    {CourseDoc(FALSE, FALSE, <<>>), CourseDoc(TRUE, FALSE, <<>>)}
        \cup {CourseDoc(TRUE, TRUE, rows) : rows \in SeqsUpTo(RowKinds, MaxRows)}

Site(root, course) == [root |-> root, course |-> course]

\* the sites the client is driven against: a login form with a token, with a
\* token field that has no value, without the token field; a dashboard that
\* has its heading, one that does not, one with a course link without digits
SampleSites ==
    {Site(DashboardDoc, OneRowDoc),
     Site(RootDoc(TRUE, None, TRUE, TRUE, OneCourseNodes), OneRowDoc),
     Site(RootDoc(FALSE, None, TRUE, TRUE, OneCourseNodes), OneRowDoc),
     Site(RootDoc(TRUE, TOKEN, FALSE, FALSE, <<>>), CourseDoc(FALSE, FALSE, <<>>)),
     Site(RootDoc(TRUE, TOKEN, TRUE, TRUE,
                  <<TermNode(SPRING_2025), ContainerNode(<<GoodBox, NoDigitsBox>>)>>),
          CourseDoc(TRUE, FALSE, <<>>))}

\* the sites the traversals are run over
ParseSites ==
    {Site(d, OneRowDoc) : d \in RootDocs} \cup {Site(DashboardDoc, c) : c \in CourseDocs}

\* courses a caller may pass to get_assignments
SampleCourses ==
    {Course(42, COURSES_42, FALL_2024, <<"C", "S">>, <<"I", "n", "t", "r", "o">>),
     Course(7, COURSES_7, SPRING_2025, <<"A">>, <<"A", "l", "g">>)}

Months == 1..12
Years == {2024, 2025}

----------------------------------------------------------------------------
(* The client driven by a caller.                                          *)

NoCall == Call("", <<>>, "unset", Return(None))

Init ==
    /\ client = "none"
    /\ username = None
    /\ password = None
    /\ logged_in = "unset"
    /\ site \in SampleSites
    /\ sent = <<>>
    /\ received = <<>>
    /\ parsed = {}
    /\ last = NoCall

Next ==
    \/ \E u \in Usernames, p \in Passwords :
           \E r1 \in Responses("GET", BASE_URL), r2 \in Responses("POST", LOGIN_URL) : Construct(u, p, r1, r2)
    \/ \E r1 \in Responses("GET", BASE_URL), r2 \in Responses("POST", LOGIN_URL) : Login(r1, r2)
    \/ \E r \in Responses("GET", BASE_URL) : GetCourses(r)
    \/ \E r \in Responses("GET", BASE_URL), month \in Months, year \in Years :
           GetTermCourses(r, month, year)
    \/ \E course \in SampleCourses : \E r \in Responses("GET", get_url(course)) :
           GetAssignments(course, r)
    \/ GetPastSubmissions
    \/ GetAssignmentGrades
    \/ DownloadFile

Spec == Init /\ [][Next]_vars

----------------------------------------------------------------------------
(* The traversals alone: a client constructed against the dashboard, then  *)
(* get_courses() and get_assignments() over every document in the bounds.  *)

InitParse ==
    /\ client = "live"
    /\ username = <<"u">>
    /\ password = <<"p">>
    /\ logged_in = "True"
    /\ site \in ParseSites
    /\ sent = <<Request("GET", BASE_URL, None),
                Request("POST", LOGIN_URL, LoginData(TOKEN, <<"u">>, <<"p">>))>>
    /\ received = <<Response(200, BASE_URL), Response(200, ACCOUNT_URL)>>
    /\ parsed = {1}
    /\ last = Call("__init__", <<<<"u">>, <<"p">>>>, "unset", Return(None))

NextParse ==
    \/ \E r \in {Response(200, BASE_URL), Response(500, BASE_URL)} : GetCourses(r)
    \/ \E r \in {Response(200, urljoin(BASE_URL, COURSES_42))} :
           GetAssignments(Course(42, COURSES_42, FALL_2024, <<"C", "S">>,
                                 <<"I", "n", "t", "r", "o">>), r)

SpecParse == InitParse /\ [][NextParse]_vars

----------------------------------------------------------------------------
(* Properties.                                                             *)

RetrievalOps == {"get_courses", "get_term_courses", "get_assignments"}
StubOps == {"get_past_submissions", "get_assignment_grades", "download_file"}

\* the last call ran login(): directly, or from the constructor
RanLogin == last.op \in {"login", "__init__"}

\* the last call ran login() and both its fetches were answered with 200
BothFetchesOK ==
    /\ RanLogin
    /\ Len(received) = 2
    /\ received[1].status_code = 200
    /\ received[2].status_code = 200

\* login() returned `value` (seen directly, or through the object __init__ gave)
LoginReturned(value) ==
    /\ last.outcome = "return"
    /\ client = "live"
    /\ logged_in = value
    /\ last.op = "login" => last.value = value

\* login() raised `error` with the message `text`
LoginRaised(error, text) ==
    /\ last.outcome = "raise"
    /\ last.error = error
    /\ last.msg.text = text
    /\ last.op = "__init__" => client = "none"

\* a constructed client has had self.logged_in assigned: __init__ returns only
\* when login() returned, and login() returns only after assigning it
FlagAssignedOnceConstructed == client = "live" => logged_in \in {"True", "False"}

\* C1: a retrieval call made while the logged-in flag is false fails with
\* NotLoggedInError, and no HTTP request has been issued by it.
C1_NotLoggedInBeforeAnyRequest ==
    (last.op \in RetrievalOps /\ last.was = "False")
        => /\ last.outcome = "raise"
           /\ last.error = "NotLoggedInError"
           /\ sent = <<>>
           /\ received = <<>>

\* each of the three retrieval calls has been refused on a logged-out client
C1_Witness ==
    /\ client = "live"
    /\ last.op = "get_term_courses"
    /\ last.was = "False"
    /\ last.error = "NotLoggedInError"

\* C2 as stated: whenever both fetches return 200 and the final URL of the
\* POST contains "login", login() returns false and the flag is false,
\* whatever else the URL contains.
C2_AnyLoginURLReturnsFalse ==
    (BothFetchesOK /\ Contains(LOGIN, received[2].url)) => LoginReturned("False")

\* C2 amended: whenever both fetches return 200 and the final URL of the POST
\* contains "login" and does not contain "account", login() returns false
\* without raising and the flag is false afterwards.
C2_LoginURLWithoutAccountReturnsFalse ==
    (BothFetchesOK /\ Contains(LOGIN, received[2].url)
                   /\ ~Contains(ACCOUNT, received[2].url))
        => LoginReturned("False")

\* a re-login of a logged-in client that the server sends back to /login
C2_Witness ==
    /\ last.op = "login"
    /\ last.was = "True"
    /\ BothFetchesOK
    /\ received[2].url = LOGIN_URL
    /\ last.outcome = "return"
    /\ logged_in = "False"

\* C3: whenever both fetches return 200 and the final URL of the POST contains
\* "account", login() returns true and the flag is true afterwards, whatever
\* the flag was before.
C3_AccountURLReturnsTrue ==
    (BothFetchesOK /\ Contains(ACCOUNT, received[2].url)) => LoginReturned("True")

\* a logged-out client logging in through a URL that holds both substrings
C3_Witness ==
    /\ last.op = "login"
    /\ last.was = "False"
    /\ BothFetchesOK
    /\ received[2].url = ACCOUNT_LOGIN_URL
    /\ logged_in = "True"

\* C4: whenever both fetches return 200 and the final URL of the POST contains
\* neither "account" nor "login", login() fails with
\* LoginError("Unknown return URL.") and, on a constructed client, the flag is
\* false afterwards, also when it was true before.
C4_UnknownURLRaisesLoginError ==
    (BothFetchesOK /\ ~Contains(ACCOUNT, received[2].url)
                   /\ ~Contains(LOGIN, received[2].url))
        => /\ LoginRaised("LoginError", "Unknown return URL.")
           /\ last.op = "login" => logged_in = "False"

\* a logged-in client whose re-login ends on the site root
C4_Witness ==
    /\ last.op = "login"
    /\ last.was = "True"
    /\ BothFetchesOK
    /\ received[2].url = BASE_URL
    /\ last.error = "LoginError"
    /\ logged_in = "False"

\* a credential that is there: neither None nor the empty string
Present(x) == x # None /\ x # <<>>

\* C5: constructing a client with a username and a password that are both
\* present raises nothing and yields a client whose flag records the outcome
\* of the login attempt, whatever that outcome was.
C5_ConstructionAlwaysSucceeds ==
    (last.op = "__init__" /\ Present(last.args[1]) /\ Present(last.args[2]))
        => /\ last.outcome = "return"
           /\ client = "live"
           /\ logged_in \in {"True", "False"}

\* C6 as stated: constructing a client with an absent (None or empty)
\* username or password fails with InvalidCredentialsError and yields no
\* client.
C6_AbsentCredentialsRaiseInvalidCredentials ==
    (last.op = "__init__" /\ (~Present(last.args[1]) \/ ~Present(last.args[2])))
        => /\ last.outcome = "raise"
           /\ last.error = "InvalidCredentialsError"
           /\ client = "none"

\* C6 amended: constructing a client with a username or password that is None
\* fails with TypeError before any HTTP request and yields no client; an
\* empty string is not treated as absent: when neither is None the
\* constructor raises no TypeError and goes on to the login attempt, issuing
\* the GET of the site root.
C6_NoneCredentialsRaiseTypeError ==
    last.op = "__init__"
        => IF last.args[1] = None \/ last.args[2] = None
           THEN /\ last.outcome = "raise"
                /\ last.error = "TypeError"
                /\ client = "none"
                /\ sent = <<>>
           ELSE /\ last.error # "TypeError"
                /\ sent # <<>>
                /\ sent[1] = Request("GET", BASE_URL, None)

\* a construction refused for a None password
C6_Witness ==
    /\ last.op = "__init__"
    /\ last.args = <<<<"u">>, None>>
    /\ last.error = "TypeError"
    /\ client = "none"

\* the calls that fetch
FetchingOps == RetrievalOps \cup {"login", "__init__"}

\* C7 as stated: a fetch answered with a status other than 200 makes the call
\* fail with a ResponseError naming the status code and the requested URL,
\* before the body is parsed and before any later request.
C7_ResponseErrorNamesRequestedURL ==
    \A i \in DOMAIN received :
        (last.op \in FetchingOps /\ received[i].status_code # 200)
            => /\ last.outcome = "raise"
               /\ last.error = "ResponseError"
               /\ last.msg.args = <<received[i].status_code, sent[i].url>>
               /\ i \notin parsed
               /\ i = Len(sent)

\* C7 amended: a fetch answered with a status other than 200 makes the call
\* fail with a ResponseError naming the status code and the response's final
\* URL (response.url: the requested URL only when no redirect was followed),
\* before the body is parsed and before any later request.
C7_ResponseErrorNamesFinalURL ==
    \A i \in DOMAIN received :
        (last.op \in FetchingOps /\ received[i].status_code # 200)
            => /\ last.outcome = "raise"
               /\ last.error = "ResponseError"
               /\ last.msg.args = <<received[i].status_code, received[i].url>>
               /\ i \notin parsed
               /\ i = Len(sent)
               /\ Len(sent) = Len(received)

\* a login whose POST was redirected and answered with 404
C7_Witness ==
    /\ last.op = "login"
    /\ Len(received) = 2
    /\ received[2] = Response(404, ACCOUNT_URL)
    /\ sent[2].url = LOGIN_URL
    /\ last.error = "ResponseError"
    /\ last.msg.args = <<404, ACCOUNT_URL>>

\* C8: when the root page, fetched with status 200, has no authenticity_token
\* field, login() still sends the credentials POST, without the token, and
\* its outcome is the one the POST response decides.
C8_MissingTokenFieldTolerated ==
    (RanLogin /\ received # <<>> /\ received[1].status_code = 200
              /\ ~site.root.token_input)
        => /\ Len(sent) = 2
           /\ sent[2].method = "POST"
           /\ sent[2].data.authenticity_token = None
           /\ last.error \in {"", "ResponseError", "LoginError"}

\* C10: only login() writes the logged-in flag, and only once the POST
\* response is classified: retrieval calls and the stubs leave it as it was,
\* and so does a login() that fails with ResponseError.
C10_FlagWrittenOnlyByClassification ==
    /\ last.op \in RetrievalOps \cup StubOps => logged_in = last.was
    /\ (last.op = "login" /\ last.error = "ResponseError") => logged_in = last.was
    /\ (last.op = "login" /\ logged_in # last.was)
           => /\ BothFetchesOK
              /\ logged_in = Classify(received[2].url).flag

\* a logged-in client that stays logged in after a re-login answered with 500
C10_Witness ==
    /\ last.op = "login"
    /\ last.was = "True"
    /\ received = <<Response(500, BASE_URL)>>
    /\ last.error = "ResponseError"
    /\ logged_in = "True"

\* the nodes of the served root document
Nodes == site.root.nodes

IsTerm(i) == Nodes[i].cls = "courseList--term"
IsContainer(j) == Nodes[j].cls = "courseList--coursesForTerm"

\* container j is the first one after label i
FirstContainerAfter(i, j) ==
    /\ i < j
    /\ IsContainer(j)
    /\ \A m \in (i + 1)..(j - 1) : ~IsContainer(m)

\* <<i, j, k>>: label i, the first container j after it, and box k of it
Entries ==
    UNION {{<<p[1], p[2], k>> : k \in DOMAIN Nodes[p[2]].boxes} :
              p \in {q \in (DOMAIN Nodes) \X (DOMAIN Nodes) :
                         IsTerm(q[1]) /\ FirstContainerAfter(q[1], q[2])}}

BoxOf(e) == Nodes[e[2]].boxes[e[3]]

\* the entries that are anchors
AnchorEntries == {e \in Entries : BoxOf(e).name = "a"}

\* every node the Course of a box is built from is there
BoxComplete(box) ==
    /\ box.href # None
    /\ \E i \in DOMAIN box.href :
           IsDigit(box.href[i]) /\ \A m \in i..Len(box.href) : box.href[m] # "/"
    /\ box.shortname # None
    /\ box.fullname # None

\* document order of the entries, and the place of an entry in it
Before(d, e) == d[1] < e[1] \/ (d[1] = e[1] /\ d[3] < e[3])
Place(e, among) == Cardinality({d \in among : Before(d, e)}) + 1

\* every node the mapping of a row is built from is there
RowComplete(row) ==
    /\ row.button
    /\ row.id # None /\ row.ready # None /\ row.url # None
    /\ row.title # None /\ row.late # None
    /\ row.status_td /\ row.status_text # None
    /\ row.released # None /\ row.due # None

\* get_assignments() returned one record per body row, in document order,
\* and no row lacked a node
OneRecordPerRow ==
    /\ site.course.table
    /\ site.course.tbody
    /\ Len(last.value) = Len(site.course.rows)
    /\ \A i \in DOMAIN site.course.rows :
           /\ RowComplete(site.course.rows[i])
           /\ last.value[i].assignment_id = DecimalValue(site.course.rows[i].id)
           /\ last.value[i].due_time = site.course.rows[i].due

\* C9 as stated: a call that returns has met no missing node: every term
\* label has its container, every course entry under it is a complete anchor,
\* and the result holds exactly one record per course entry (get_courses) and
\* per body row (get_assignments), in document order.
C9_NoSoftSkip ==
    /\ (last.op = "get_courses" /\ last.outcome = "return")
           => /\ site.root.heading
              /\ site.root.courseList
              /\ \A i \in DOMAIN Nodes :
                     IsTerm(i) => \E j \in DOMAIN Nodes : FirstContainerAfter(i, j)
              /\ \A e \in Entries : BoxOf(e).name = "a" /\ BoxComplete(BoxOf(e))
              /\ Len(last.value) = Cardinality(Entries)
    /\ (last.op = "get_assignments" /\ last.outcome = "return") => OneRecordPerRow

\* C9 amended: get_assignments() either fails or returns exactly one record
\* per body row, in document order, every row having all its nodes.
\* get_courses() either fails or returns, in document order, exactly one
\* record per pair of a term label and an anchor of class courseBox in the
\* first courseList--coursesForTerm sibling after that label, every such
\* anchor having its href digits, short-name and full-name nodes; a term
\* label with no such sibling after it and a courseBox that is no anchor are
\* passed over without failing the call.
C9_HardFailureExceptTwoSkips ==
    /\ (last.op = "get_courses" /\ last.outcome = "return")
           => /\ site.root.heading
              /\ site.root.courseList
              /\ Len(last.value) = Cardinality(AnchorEntries)
              /\ \A e \in AnchorEntries :
                     /\ BoxComplete(BoxOf(e))
                     /\ last.value[Place(e, AnchorEntries)].term = Strip(Nodes[e[1]].text)
                     /\ last.value[Place(e, AnchorEntries)].url = BoxOf(e).href
    /\ (last.op = "get_assignments" /\ last.outcome = "return") => OneRecordPerRow

\* two labels before one container with one anchor: the label without a
\* container of its own is not a failure, and the anchor is read for both
C9_Witness ==
    /\ last.op = "get_courses"
    /\ last.outcome = "return"
    /\ Nodes = <<TermNode(FALL_2024), TermNode(SPRING_2025), ContainerNode(<<GoodBox>>)>>
    /\ Len(last.value) = 2
    /\ last.value[1].term = FALL_2024
    /\ last.value[2].term = SPRING_2025

====
